---- MODULE Spec2Model ----
(***************************************************************************)
(* Model of guessing.py: the number guessing game (play_game), its         *)
(* leaderboard store (load_high_scores / save_high_score) and the menu     *)
(* loop (main_menu).                                                       *)
(*                                                                         *)
(* The process is single threaded and blocks only on input().  A state of  *)
(* the model is the process waiting at one input() call; an action is one  *)
(* line typed by the player together with everything the code runs until   *)
(* the next input() call.  Text is a sequence of one-character strings.    *)
(* Banners, prompts and column padding are not modelled; every other       *)
(* print is a message of `out`.                                            *)
(***************************************************************************)
EXTENDS Integers, Sequences, FiniteSets, Bags, TLC

(***************************************************************************)
(* Bounds of the model and the sampled inputs.                             *)
(***************************************************************************)
\* games started in one run of the program
MaxGames == 1
\* records handed to the store in one run of the store's operations
MaxSaves == 3
\* the longest leaderboard handed to display_leaderboard
MaxRows == 12

T_easy == <<"e", "a", "s", "y">>
T_medium == <<"m", "e", "d", "i", "u", "m">>
T_hard == <<"h", "a", "r", "d">>
T_Anonymous == <<"A", "n", "o", "n", "y", "m", "o", "u", "s">>

\* lines typed at the name prompt
NameLines == { <<>>, <<" ", "A", "l">> }

\* lines typed at the difficulty prompt
DifficultyLines == { <<"E", "a", "s", "y">>, T_medium,
                     <<"H", "A", "R", "D">>, <<"x">> }

\* lines typed at the guess prompt
GuessLines == { <<"7">>, <<" ", "5", "0">>, <<"0">>, <<"1", "0", "1">>, <<"a", "b", "c">> }

\* lines typed at the menu prompt
MenuLines == { <<"1">>, <<"2">>, <<"3">>, <<" ", "1">> }

\* values random.randint is sampled at
SecretSamples == {7, 50}

\* values of datetime.now().strftime("%Y-%m-%d")
Dates == { <<"2", "0", "2", "6", "-", "1", "1", "-", "0", "1">> }

\* outcomes of open(HIGH_SCORES_FILE, 'w') followed by json.dump:
\*   ok      the whole array is written
\*   denied  open raises IOError, the file is untouched
\*   partial open truncates the file and the dump raises IOError part-way
WriteOutcomes == {"ok", "denied", "partial"}

(***************************************************************************)
(* Text: str.strip, str.lower, str.capitalize, int().                      *)
(***************************************************************************)
UpperChars == <<"A", "B", "C", "D", "E", "F", "G", "H", "I", "J", "K", "L", "M",
                "N", "O", "P", "Q", "R", "S", "T", "U", "V", "W", "X", "Y", "Z">>
LowerChars == <<"a", "b", "c", "d", "e", "f", "g", "h", "i", "j", "k", "l", "m",
                "n", "o", "p", "q", "r", "s", "t", "u", "v", "w", "x", "y", "z">>
DigitChars == <<"0", "1", "2", "3", "4", "5", "6", "7", "8", "9">>

IndexIn(c, chars) ==
    IF \E i \in DOMAIN chars : chars[i] = c
    THEN CHOOSE i \in DOMAIN chars : chars[i] = c
    ELSE 0

LowerChar(c) ==
    IF IndexIn(c, UpperChars) > 0 THEN LowerChars[IndexIn(c, UpperChars)] ELSE c

UpperChar(c) ==
    IF IndexIn(c, LowerChars) > 0 THEN UpperChars[IndexIn(c, LowerChars)] ELSE c

Lower(s) == [i \in DOMAIN s |-> LowerChar(s[i])]

Capitalize(s) == [i \in DOMAIN s |-> IF i = 1 THEN UpperChar(s[i]) ELSE LowerChar(s[i])]

RECURSIVE LStrip(_)
LStrip(s) == IF s # <<>> /\ Head(s) = " " THEN LStrip(Tail(s)) ELSE s

RECURSIVE RStrip(_)
RStrip(s) ==
    IF s # <<>> /\ s[Len(s)] = " " THEN RStrip(SubSeq(s, 1, Len(s) - 1)) ELSE s

Strip(s) == RStrip(LStrip(s))

RECURSIVE DigitsValue(_)
DigitsValue(s) ==
    IF s = <<>> THEN 0
    ELSE 10 * DigitsValue(SubSeq(s, 1, Len(s) - 1)) + (IndexIn(s[Len(s)], DigitChars) - 1)

\* int(text): surrounding blanks and one sign are allowed, then digits only;
\* anything else raises ValueError
ParseInt(line) ==
    LET s == Strip(line)
        signed == s # <<>> /\ Head(s) \in {"+", "-"}
        digits == IF signed THEN Tail(s) ELSE s
        ok == digits # <<>> /\ \A i \in DOMAIN digits : IndexIn(digits[i], DigitChars) > 0
    IN  [ok |-> ok,
         value |-> IF ~ok THEN 0
                   ELSE IF signed /\ Head(s) = "-" THEN 0 - DigitsValue(digits)
                   ELSE DigitsValue(digits)]

(***************************************************************************)
(* Constants of the program.                                               *)
(***************************************************************************)
DIFFICULTIES ==
    (T_easy :> [tries |-> 10, range |-> 100]) @@
    (T_medium :> [tries |-> 7, range |-> 100]) @@
    (T_hard :> [tries |-> 5, range |-> 100])

Msg(m, n, parts) == [msg |-> m, n |-> n, parts |-> parts]

(***************************************************************************)
(* The leaderboard store.  The file is absent, holds a JSON array of score *)
(* records ("ok"), holds text that is not JSON ("badjson"), or holds JSON  *)
(* that is not an array of objects with an 'attempts' key ("badshape").    *)
(***************************************************************************)
AbsentFile == [kind |-> "absent", recs |-> <<>>]
BadJsonFile == [kind |-> "badjson", recs |-> <<>>]
BadShapeFile == [kind |-> "badshape", recs |-> <<>>]
OkFile(recs) == [kind |-> "ok", recs |-> recs]

\* variant: the score is built from the count before the winning guess
ScoreRecord_BeforeIncrement(name, difficulty, attempts, date) ==
    [name |-> name, difficulty |-> difficulty, attempts |-> attempts - 1, date |-> date]

ScoreRecord(name, difficulty, attempts, date) ==
    [name |-> name, difficulty |-> difficulty, attempts |-> attempts, date |-> date]

\* variant: no sort, the record stays where append put it
InsertByAttempts_Unsorted(sorted, r) == Append(sorted, r)

\* variant: r goes before the records of equal attempts
InsertByAttempts_BeforeTies(sorted, r) ==
    LET k == Cardinality({i \in DOMAIN sorted : sorted[i].attempts < r.attempts})
    IN  SubSeq(sorted, 1, k) \o <<r>> \o SubSeq(sorted, k + 1, Len(sorted))

\* the place list.sort / sorted (stable, ascending) gives r in a sorted list
InsertByAttempts(sorted, r) ==
    LET k == Cardinality({i \in DOMAIN sorted : sorted[i].attempts <= r.attempts})
    IN  SubSeq(sorted, 1, k) \o <<r>> \o SubSeq(sorted, k + 1, Len(sorted))

RECURSIVE SortByAttempts(_)
SortByAttempts(s) ==
    IF s = <<>> THEN <<>>
    ELSE InsertByAttempts(SortByAttempts(SubSeq(s, 1, Len(s) - 1)), s[Len(s)])

\* variant: json.JSONDecodeError is not caught
load_high_scores_NoExcept(f) ==
    CASE f.kind = "absent" ->
            [scores |-> <<>>, raised |-> FALSE, out |-> <<>>]
      [] f.kind = "ok" ->
            [scores |-> SortByAttempts(f.recs), raised |-> FALSE, out |-> <<>>]
      [] OTHER ->
            [scores |-> <<>>, raised |-> TRUE, out |-> <<>>]

load_high_scores(f) ==
    CASE f.kind = "absent" ->
            [scores |-> <<>>, raised |-> FALSE, out |-> <<>>]
      [] f.kind = "ok" ->
            [scores |-> SortByAttempts(f.recs), raised |-> FALSE, out |-> <<>>]
      [] f.kind = "badjson" ->
            [scores |-> <<>>, raised |-> FALSE, out |-> <<Msg("Warning", 0, <<>>)>>]
      [] OTHER ->
            [scores |-> <<>>, raised |-> TRUE, out |-> <<>>]

\* what the 'w' open and the dump leave in the file
WriteFile(f, scores, w) ==
    CASE w = "ok" -> OkFile(scores)
      [] w = "denied" -> f
      [] OTHER -> BadJsonFile

\* variant: the stored scores are not loaded before the write
save_high_score_Overwrite(f, score, w) ==
    [file |-> WriteFile(f, <<score>>, w), raised |-> FALSE,
     out |-> IF w = "ok" THEN <<>> ELSE <<Msg("ErrorSaving", 0, <<>>)>>]

\* variant: a file that did not load is left alone
save_high_score_KeepBad(f, score, w) ==
    LET l == load_high_scores(f)
        scores == SortByAttempts(Append(l.scores, score))
    IN  IF l.raised
        THEN [file |-> f, raised |-> TRUE, out |-> l.out]
        ELSE [file |-> IF l.out # <<>> THEN f ELSE WriteFile(f, scores, w),
              raised |-> FALSE,
              out |-> l.out \o (IF w = "ok" THEN <<>>
                                ELSE <<Msg("ErrorSaving", 0, <<>>)>>)]

save_high_score(f, score, w) ==
    LET l == load_high_scores(f)
        scores == SortByAttempts(Append(l.scores, score))
    IN  IF l.raised
        THEN [file |-> f, raised |-> TRUE, out |-> l.out]
        ELSE [file |-> WriteFile(f, scores, w), raised |-> FALSE,
              out |-> l.out \o (IF w = "ok" THEN <<>>
                                ELSE <<Msg("ErrorSaving", 0, <<>>)>>)]

\* variant: the list is not cut at ten
display_leaderboard_All(scores) ==
    IF scores = <<>>
    THEN [rows |-> <<>>, out |-> <<Msg("NoScores", 0, <<>>)>>]
    ELSE [rows |-> [i \in 1..Len(scores) |->
                      [rank |-> i, name |-> scores[i].name,
                       difficulty |-> Capitalize(scores[i].difficulty),
                       attempts |-> scores[i].attempts, date |-> scores[i].date]],
          out |-> <<>>]

\* the rows display_leaderboard prints
display_leaderboard(scores) ==
    IF scores = <<>>
    THEN [rows |-> <<>>, out |-> <<Msg("NoScores", 0, <<>>)>>]
    ELSE [rows |-> [i \in 1..(IF Len(scores) < 10 THEN Len(scores) ELSE 10) |->
                      [rank |-> i, name |-> scores[i].name,
                       difficulty |-> Capitalize(scores[i].difficulty),
                       attempts |-> scores[i].attempts, date |-> scores[i].date]],
          out |-> <<>>]

(***************************************************************************)
(* The session engine's functions.                                         *)
(***************************************************************************)
get_player_name(line) ==
    LET name == Strip(line) IN IF name # <<>> THEN name ELSE T_Anonymous

\* random.randint(1, max_range), at the sampled values
generate_secret_number(difficulty_level) ==
    {n \in 1..DIFFICULTIES[difficulty_level].range : n \in SecretSamples}

\* variant: the range check starts at 0
get_user_guess_FromZero(line, max_range) ==
    LET p == ParseInt(line)
    IN  IF ~p.ok
        THEN [accepted |-> FALSE, guess |-> 0, out |-> <<Msg("InvalidInput", 0, <<>>)>>]
        ELSE IF 0 <= p.value /\ p.value <= max_range
        THEN [accepted |-> TRUE, guess |-> p.value, out |-> <<>>]
        ELSE [accepted |-> FALSE, guess |-> 0,
              out |-> <<Msg("OutOfRange", max_range, <<>>)>>]

\* one pass of get_user_guess's loop over one typed line
get_user_guess(line, max_range) ==
    LET p == ParseInt(line)
    IN  IF ~p.ok
        THEN [accepted |-> FALSE, guess |-> 0, out |-> <<Msg("InvalidInput", 0, <<>>)>>]
        ELSE IF 1 <= p.value /\ p.value <= max_range
        THEN [accepted |-> TRUE, guess |-> p.value, out |-> <<>>]
        ELSE [accepted |-> FALSE, guess |-> 0,
              out |-> <<Msg("OutOfRange", max_range, <<>>)>>]

Hint(kind, n) == [kind |-> kind, n |-> n]

\* variant: divisibility by 5 is tested before divisibility by 3
hint_candidates_FiveFirst(secret_number, last_guess) ==
    (IF secret_number % 2 = 0 THEN <<Hint("even", 0)>> ELSE <<Hint("odd", 0)>>)
    \o (IF secret_number > 10
        THEN IF secret_number % 5 = 0 THEN <<Hint("divisible", 5)>>
             ELSE IF secret_number % 3 = 0 THEN <<Hint("divisible", 3)>>
             ELSE IF secret_number % 7 = 0 THEN <<Hint("divisible", 7)>>
             ELSE <<>>
        ELSE <<>>)
    \o (IF last_guess # <<>>
        THEN IF last_guess[1] < secret_number THEN <<Hint("greater", last_guess[1])>>
             ELSE IF last_guess[1] > secret_number THEN <<Hint("less", last_guess[1])>>
             ELSE <<>>
        ELSE <<>>)

\* the list `hints` before the shuffle; last_guess is <<>> (None) or <<g>>
hint_candidates(secret_number, last_guess) ==
    (IF secret_number % 2 = 0 THEN <<Hint("even", 0)>> ELSE <<Hint("odd", 0)>>)
    \o (IF secret_number > 10
        THEN IF secret_number % 3 = 0 THEN <<Hint("divisible", 3)>>
             ELSE IF secret_number % 5 = 0 THEN <<Hint("divisible", 5)>>
             ELSE IF secret_number % 7 = 0 THEN <<Hint("divisible", 7)>>
             ELSE <<>>
        ELSE <<>>)
    \o (IF last_guess # <<>>
        THEN IF last_guess[1] < secret_number THEN <<Hint("greater", last_guess[1])>>
             ELSE IF last_guess[1] > secret_number THEN <<Hint("less", last_guess[1])>>
             ELSE <<>>
        ELSE <<>>)

\* the orders random.shuffle can leave a list in
Shuffles(s) ==
    { [i \in DOMAIN s |-> s[p[i]]] :
        p \in {q \in [DOMAIN s -> DOMAIN s] : \A i, j \in DOMAIN s : q[i] = q[j] => i = j} }

\* variant: the last guess is not passed on, as if it were None
generate_hint_NoLastGuess(secret_number, attempts_made, last_guess) ==
    UNION { { SubSeq(h, 1, IF Len(h) < 2 THEN Len(h) ELSE 2) : h \in Shuffles(hints) } :
              hints \in {hint_candidates(secret_number, <<>>)} }

\* the hints generate_hint can return: hints[:2] of a shuffled list
generate_hint(secret_number, attempts_made, last_guess) ==
    UNION { { SubSeq(h, 1, IF Len(h) < 2 THEN Len(h) ELSE 2) : h \in Shuffles(hints) } :
              hints \in {hint_candidates(secret_number, last_guess)} }

\* variants: the loop allows one guess more, or one guess fewer
LoopContinues_OneMore(made, max_attempts) == made <= max_attempts
LoopContinues_OneFewer(made, max_attempts) == made < max_attempts - 1

\* the while condition of play_game
LoopContinues(made, max_attempts) == made < max_attempts

\* variant: a wrong guess is not counted
NextAttempts_NotCounted(made) == made

\* attempts_made += 1
NextAttempts(made) == made + 1

\* variant: a hint after every wrong guess from the third on
HintDue_FromThree(made, won) == made >= 3 /\ ~won

\* the condition under which play_game prints a hint after a wrong guess
HintDue(made, won) ==
    made >= 3 /\ ~won /\ (made = 3 \/ (made > 3 /\ made % 2 = 1))

(***************************************************************************)
(* State.                                                                  *)
(***************************************************************************)
VARIABLES
    pc,                \* the input() call the process waits at
    file,              \* high_scores.json
    high_scores,       \* main_menu's local
    player_name, difficulty_choice, secret_number,
    attempts_made, last_guess, game_won,      \* play_game's locals
    out,               \* what the last step printed
    displayed,         \* the leaderboard rows on the screen
    line,              \* the line the last input() call returned
    games,             \* games started so far
    guesses,           \* history: the accepted guesses of the session
    saved,             \* store history: the records handed to save_high_score
    write_failed,      \* store history: some write failed
    file0,             \* store history: the file before the first operation
    race               \* the processes that are inside save_high_score together

session == <<player_name, difficulty_choice, secret_number,
             attempts_made, last_guess, game_won, guesses>>
history == <<saved, write_failed, file0, race>>
vars == <<pc, file, high_scores, player_name, difficulty_choice, secret_number,
          attempts_made, last_guess, game_won, out, displayed, line, games,
          guesses, saved, write_failed, file0, race>>

T_none == <<>>

\* the processes of a concurrent save, and one that is not inside save_high_score
Procs == {"p1", "p2"}
Outside == [at |-> "outside", score |-> <<>>, scores |-> <<>>, seen |-> {}]
NoRace == [procs |-> [p \in Procs |-> Outside], wrote |-> <<>>]

\* leaderboard files the program can find when it starts
InitFiles ==
    { AbsentFile, BadJsonFile, BadShapeFile,
      OkFile(<<ScoreRecord(<<"B", "o">>, T_hard, 3, CHOOSE d \in Dates : TRUE)>>) }

NoSession ==
    /\ player_name' = T_none
    /\ difficulty_choice' = T_none
    /\ secret_number' = 0
    /\ attempts_made' = 0
    /\ last_guess' = <<>>
    /\ game_won' = FALSE
    /\ guesses' = <<>>

Init ==
    /\ pc = "start"
    /\ file \in InitFiles
    /\ file0 = file
    /\ high_scores = <<>>
    /\ player_name = T_none
    /\ difficulty_choice = T_none
    /\ secret_number = 0
    /\ attempts_made = 0
    /\ last_guess = <<>>
    /\ game_won = FALSE
    /\ out = <<>>
    /\ displayed = <<>>
    /\ line = <<>>
    /\ games = 0
    /\ guesses = <<>>
    /\ saved = <<>>
    /\ write_failed = FALSE
    /\ race = NoRace

(***************************************************************************)
(* main_menu.                                                              *)
(***************************************************************************)
\* high_scores = load_high_scores() before the loop
MenuStart ==
    /\ pc = "start"
    /\ LET l == load_high_scores(file)
       IN  /\ pc' = IF l.raised THEN "crashed" ELSE "menu"
           /\ high_scores' = l.scores
           /\ out' = l.out
    /\ UNCHANGED <<history, session, file, displayed, line, games>>

\* choice '1': play_game up to its first prompt
ChoosePlay(l) ==
    /\ pc = "menu"
    /\ l = <<"1">>
    /\ games < MaxGames
    /\ pc' = "name"
    /\ line' = l
    /\ games' = games + 1
    /\ out' = <<>>
    /\ UNCHANGED <<history, session, file, high_scores, displayed>>

\* choice '2': display_leaderboard up to its prompt
ChooseLeaderboard(l) ==
    /\ pc = "menu"
    /\ l = <<"2">>
    /\ LET d == display_leaderboard(high_scores)
       IN  /\ displayed' = d.rows
           /\ out' = d.out
    /\ pc' = "leaderboard"
    /\ line' = l
    /\ UNCHANGED <<history, session, file, high_scores, games>>

\* Enter at display_leaderboard's prompt, then high_scores = load_high_scores()
LeaderboardEnter ==
    /\ pc = "leaderboard"
    /\ LET l == load_high_scores(file)
       IN  /\ pc' = IF l.raised THEN "crashed" ELSE "menu"
           /\ high_scores' = IF l.raised THEN high_scores ELSE l.scores
           /\ out' = l.out
    /\ displayed' = <<>>
    /\ line' = <<>>
    /\ UNCHANGED <<history, session, file, games>>

\* choice '3'
ChooseExit(l) ==
    /\ pc = "menu"
    /\ l = <<"3">>
    /\ pc' = "exited"
    /\ line' = l
    /\ out' = <<Msg("Goodbye", 0, <<>>)>>
    /\ UNCHANGED <<history, session, file, high_scores, displayed, games>>

\* any other choice
ChooseInvalid(l) ==
    /\ pc = "menu"
    /\ l \notin {<<"1">>, <<"2">>, <<"3">>}
    /\ pc' = "retry"
    /\ line' = l
    /\ out' = <<Msg("InvalidChoice", 0, <<>>)>>
    /\ UNCHANGED <<history, session, file, high_scores, displayed, games>>

\* Enter at "Press Enter to try again..."
RetryEnter ==
    /\ pc = "retry"
    /\ pc' = "menu"
    /\ line' = <<>>
    /\ out' = <<>>
    /\ UNCHANGED <<history, session, file, high_scores, displayed, games>>

(***************************************************************************)
(* play_game.                                                              *)
(***************************************************************************)
EnterName(l) ==
    /\ pc = "name"
    /\ player_name' = get_player_name(l)
    /\ pc' = "difficulty"
    /\ line' = l
    /\ out' = <<>>
    /\ UNCHANGED <<history, difficulty_choice, secret_number, attempts_made, last_guess,
                   game_won, guesses, file, high_scores, displayed, games>>

\* get_difficulty_choice rejects the line and asks again
DifficultyRejected(l) ==
    /\ pc = "difficulty"
    /\ Lower(l) \notin DOMAIN DIFFICULTIES
    /\ line' = l
    /\ out' = <<Msg("InvalidDifficulty", 0, <<>>)>>
    /\ UNCHANGED <<history, pc, session, file, high_scores, displayed, games>>

\* the difficulty is chosen: the secret is drawn and the guess loop is entered
DifficultyChosen(l) ==
    /\ pc = "difficulty"
    /\ Lower(l) \in DOMAIN DIFFICULTIES
    /\ difficulty_choice' = Lower(l)
    /\ secret_number' \in generate_secret_number(Lower(l))
    /\ attempts_made' = 0
    /\ last_guess' = <<>>
    /\ game_won' = FALSE
    /\ guesses' = <<>>
    /\ pc' = "guess"
    /\ line' = l
    /\ out' = <<Msg("AttemptsLeft", DIFFICULTIES[Lower(l)].tries, <<>>)>>
    /\ UNCHANGED <<history, player_name, file, high_scores, displayed, games>>

\* get_user_guess rejects the line and asks again
GuessRejected(l) ==
    /\ pc = "guess"
    /\ \E g \in {get_user_guess(l, DIFFICULTIES[difficulty_choice].range)} :
           /\ ~g.accepted
           /\ out' = g.out
    /\ line' = l
    /\ UNCHANGED <<history, pc, session, file, high_scores, displayed, games>>

\* an accepted guess that is not the secret: the rest of the loop body, and the
\* end of play_game up to its last prompt when the loop ends
GuessWrong(l) ==
    /\ pc = "guess"
    /\ \E g \in {get_user_guess(l, DIFFICULTIES[difficulty_choice].range)},
          made \in {NextAttempts(attempts_made)} :
       LET settings == DIFFICULTIES[difficulty_choice]
           more == LoopContinues(made, settings.tries)
       IN  /\ g.accepted
           /\ g.guess # secret_number
           /\ last_guess' = <<g.guess>>
           /\ attempts_made' = made
           /\ guesses' = Append(guesses, g.guess)
           /\ \E h \in (IF HintDue(made, game_won)
                        THEN generate_hint(secret_number, made, <<g.guess>>)
                        ELSE {<<>>}) :
                out' = <<Msg(IF g.guess < secret_number THEN "TooLow" ELSE "TooHigh",
                             0, <<>>)>>
                       \o (IF HintDue(made, game_won) THEN <<Msg("Hint", 0, h)>> ELSE <<>>)
                       \o (IF more THEN <<Msg("AttemptsLeft", settings.tries - made, <<>>)>>
                           ELSE <<Msg("GameOver", secret_number, <<>>)>>)
           /\ pc' = IF more THEN "guess" ELSE "continue"
    /\ line' = l
    /\ UNCHANGED <<history, player_name, difficulty_choice, secret_number, game_won,
                   file, high_scores, displayed, games>>

\* variant: the confirmation is printed only when the write succeeded
GuessWon_ConfirmIfWritten(l, date, w) ==
    /\ pc = "guess"
    /\ \E g \in {get_user_guess(l, DIFFICULTIES[difficulty_choice].range)},
          made \in {NextAttempts(attempts_made)} :
       \E s \in {save_high_score(file, ScoreRecord(player_name, difficulty_choice,
                                                   made, date), w)} :
           /\ g.accepted
           /\ g.guess = secret_number
           /\ last_guess' = <<g.guess>>
           /\ attempts_made' = made
           /\ guesses' = Append(guesses, g.guess)
           /\ game_won' = TRUE
           /\ file' = s.file
           /\ pc' = IF s.raised THEN "crashed" ELSE "continue"
           /\ out' = <<Msg("Congratulations", made, <<>>)>> \o s.out
                     \o (IF s.raised \/ w # "ok" THEN <<>>
                         ELSE <<Msg("ScoreSaved", 0, <<>>)>>)
    /\ line' = l
    /\ UNCHANGED <<history, player_name, difficulty_choice, secret_number,
                   high_scores, displayed, games>>

\* the accepted guess is the secret: the loop breaks and the score is saved
GuessWon(l, date, w) ==
    /\ pc = "guess"
    /\ \E g \in {get_user_guess(l, DIFFICULTIES[difficulty_choice].range)},
          made \in {NextAttempts(attempts_made)} :
       \E s \in {save_high_score(file, ScoreRecord(player_name, difficulty_choice,
                                                   made, date), w)} :
           /\ g.accepted
           /\ g.guess = secret_number
           /\ last_guess' = <<g.guess>>
           /\ attempts_made' = made
           /\ guesses' = Append(guesses, g.guess)
           /\ game_won' = TRUE
           /\ file' = s.file
           /\ pc' = IF s.raised THEN "crashed" ELSE "continue"
           /\ out' = <<Msg("Congratulations", made, <<>>)>> \o s.out
                     \o (IF s.raised THEN <<>> ELSE <<Msg("ScoreSaved", 0, <<>>)>>)
    /\ line' = l
    /\ UNCHANGED <<history, player_name, difficulty_choice, secret_number,
                   high_scores, displayed, games>>

\* Enter at play_game's last prompt: play_game returns to the menu
ContinueEnter ==
    /\ pc = "continue"
    /\ pc' = "menu"
    /\ NoSession
    /\ line' = <<>>
    /\ out' = <<>>
    /\ UNCHANGED <<history, file, high_scores, displayed, games>>

Next ==
    \/ MenuStart
    \/ \E l \in MenuLines : ChoosePlay(l)
    \/ \E l \in MenuLines : ChooseLeaderboard(l)
    \/ \E l \in MenuLines : ChooseExit(l)
    \/ \E l \in MenuLines : ChooseInvalid(l)
    \/ LeaderboardEnter
    \/ RetryEnter
    \/ \E l \in NameLines : EnterName(l)
    \/ \E l \in DifficultyLines : DifficultyRejected(l)
    \/ \E l \in DifficultyLines : DifficultyChosen(l)
    \/ \E l \in GuessLines : GuessRejected(l)
    \/ \E l \in GuessLines : GuessWrong(l)
    \/ \E l \in GuessLines, date \in Dates, w \in WriteOutcomes : GuessWon(l, date, w)
    \/ ContinueEnter

Spec == Init /\ [][Next]_vars

(***************************************************************************)
(* The leaderboard store on its own: save_high_score and load_high_scores  *)
(* called in any order by one process, on sampled score records.           *)
(***************************************************************************)
\* records handed to save_high_score
StoreScores ==
    { ScoreRecord(<<"A", "l">>, T_easy, 5, d) : d \in Dates } \cup
    { ScoreRecord(<<"B", "o">>, T_hard, 3, d) : d \in Dates } \cup
    { ScoreRecord(<<"A", "l">>, T_easy, 8, d) : d \in Dates } \cup
    { ScoreRecord(<<"B", "o">>, T_hard, 5, d) : d \in Dates }

\* leaderboard files the store can find
StoreInitFiles == InitFiles \cup { OkFile(<<>>) }

InitStore ==
    /\ pc = "store"
    /\ file \in StoreInitFiles
    /\ file0 = file
    /\ high_scores = <<>>
    /\ player_name = T_none
    /\ difficulty_choice = T_none
    /\ secret_number = 0
    /\ attempts_made = 0
    /\ last_guess = <<>>
    /\ game_won = FALSE
    /\ out = <<>>
    /\ displayed = <<>>
    /\ line = <<>>
    /\ games = 0
    /\ guesses = <<>>
    /\ saved = <<>>
    /\ write_failed = FALSE
    /\ race = NoRace

\* save_high_score(score), the write ending as w
StoreSave(score, w) ==
    /\ pc = "store"
    /\ Len(saved) < MaxSaves
    /\ LET s == save_high_score(file, score, w)
       IN  /\ pc' = IF s.raised THEN "crashed" ELSE "store"
           /\ file' = s.file
           /\ out' = s.out
           /\ write_failed' = (write_failed \/ (~s.raised /\ w # "ok"))
    /\ saved' = Append(saved, score)
    /\ UNCHANGED <<session, high_scores, displayed, line, games, file0, race>>

\* high_scores = load_high_scores()
StoreLoad ==
    /\ pc = "store"
    /\ LET l == load_high_scores(file)
       IN  /\ pc' = IF l.raised THEN "crashed" ELSE "store"
           /\ high_scores' = IF l.raised THEN high_scores ELSE l.scores
           /\ out' = l.out
    /\ UNCHANGED <<session, file, displayed, line, games, history>>

NextStore ==
    \/ \E score \in StoreScores, w \in WriteOutcomes : StoreSave(score, w)
    \/ StoreLoad

SpecStore == InitStore /\ [][NextStore]_vars

(***************************************************************************)
(* One call of play_game from the menu, with a player who, asked for a     *)
(* guess, eventually types one that is accepted.                           *)
(***************************************************************************)
InitSession ==
    /\ pc = "name"
    /\ file \in {f \in InitFiles : ~load_high_scores(f).raised}
    /\ file0 = file
    /\ high_scores = load_high_scores(file).scores
    /\ player_name = T_none
    /\ difficulty_choice = T_none
    /\ secret_number = 0
    /\ attempts_made = 0
    /\ last_guess = <<>>
    /\ game_won = FALSE
    /\ out = <<>>
    /\ displayed = <<>>
    /\ line = <<"1">>
    /\ games = 1
    /\ guesses = <<>>
    /\ saved = <<>>
    /\ write_failed = FALSE
    /\ race = NoRace

NextSession ==
    \/ \E l \in NameLines : EnterName(l)
    \/ \E l \in DifficultyLines : DifficultyRejected(l)
    \/ \E l \in DifficultyLines : DifficultyChosen(l)
    \/ \E l \in GuessLines : GuessRejected(l)
    \/ \E l \in GuessLines : GuessWrong(l)
    \/ \E l \in GuessLines, date \in Dates, w \in WriteOutcomes : GuessWon(l, date, w)
    \/ ContinueEnter

AcceptedGuess ==
    \E l \in GuessLines :
        \/ GuessWrong(l)
        \/ \E date \in Dates, w \in WriteOutcomes : GuessWon(l, date, w)

SpecSession == InitSession /\ [][NextSession]_vars /\ WF_vars(AcceptedGuess)

(***************************************************************************)
(* Two processes that each call save_high_score once on the same file,     *)
(* and a third that loads it.  Nothing locks the file, so the load, the    *)
(* open and the dump of one call interleave with those of the other.       *)
(***************************************************************************)
Idle == [at |-> "idle", score |-> <<>>, scores |-> <<>>, seen |-> {}]
Writing == {p \in Procs : race.procs[p].at \in {"opened", "done"}}

InitRace ==
    /\ pc = "race"
    /\ file \in {f \in StoreInitFiles : ~load_high_scores(f).raised}
    /\ file0 = file
    /\ high_scores = <<>>
    /\ player_name = T_none
    /\ difficulty_choice = T_none
    /\ secret_number = 0
    /\ attempts_made = 0
    /\ last_guess = <<>>
    /\ game_won = FALSE
    /\ out = <<>>
    /\ displayed = <<>>
    /\ line = <<>>
    /\ games = 0
    /\ guesses = <<>>
    /\ saved = <<>>
    /\ write_failed = FALSE
    /\ race = [procs |-> [p \in Procs |-> Idle], wrote |-> <<>>]

\* scores = load_high_scores(); scores.append(new_score); scores.sort(...)
SaveLoad(p, score) ==
    /\ pc = "race"
    /\ race.procs[p].at = "idle"
    /\ \E l \in {load_high_scores(file)} :
         /\ race' = [race EXCEPT !.procs[p] =
                        [at |-> "loaded", score |-> score,
                         scores |-> SortByAttempts(Append(l.scores, score)),
                         seen |-> Writing]]
         /\ out' = l.out
    /\ saved' = Append(saved, score)
    /\ UNCHANGED <<pc, session, file, high_scores, displayed, line, games,
                   write_failed, file0>>

\* open(HIGH_SCORES_FILE, 'w'): refused, or the file is now empty
SaveOpen(p, w) ==
    /\ pc = "race"
    /\ race.procs[p].at = "loaded"
    /\ w \in {"ok", "denied"}
    /\ file' = WriteFile(file, race.procs[p].scores,
                         IF w = "ok" THEN "partial" ELSE "denied")
    /\ race' = [race EXCEPT !.procs[p].at = IF w = "ok" THEN "opened" ELSE "done"]
    /\ out' = IF w = "ok" THEN <<>> ELSE <<Msg("ErrorSaving", 0, <<>>)>>
    /\ write_failed' = (write_failed \/ w # "ok")
    /\ UNCHANGED <<pc, session, high_scores, displayed, line, games, saved, file0>>

\* variant: the dump writes the process's own record alone
SaveDump_OwnRecord(p, w) ==
    /\ pc = "race"
    /\ race.procs[p].at = "opened"
    /\ w \in {"ok", "partial"}
    /\ file' = WriteFile(file, <<race.procs[p].score>>, w)
    /\ race' = [race EXCEPT !.procs[p].at = "done",
                            !.wrote = IF w = "ok" THEN Append(@, p) ELSE @]
    /\ out' = IF w = "ok" THEN <<>> ELSE <<Msg("ErrorSaving", 0, <<>>)>>
    /\ write_failed' = (write_failed \/ w # "ok")
    /\ UNCHANGED <<pc, session, high_scores, displayed, line, games, saved, file0>>

\* json.dump(scores, f, indent=4) and the close: whole, or cut short
SaveDump(p, w) ==
    /\ pc = "race"
    /\ race.procs[p].at = "opened"
    /\ w \in {"ok", "partial"}
    /\ file' = WriteFile(file, race.procs[p].scores, w)
    /\ race' = [race EXCEPT !.procs[p].at = "done",
                            !.wrote = IF w = "ok" THEN Append(@, p) ELSE @]
    /\ out' = IF w = "ok" THEN <<>> ELSE <<Msg("ErrorSaving", 0, <<>>)>>
    /\ write_failed' = (write_failed \/ w # "ok")
    /\ UNCHANGED <<pc, session, high_scores, displayed, line, games, saved, file0>>

\* load_high_scores() in a process that only reads
RaceLoad ==
    /\ pc = "race"
    /\ \E l \in {load_high_scores(file)} :
         /\ high_scores' = l.scores
         /\ out' = l.out
    /\ UNCHANGED <<pc, session, file, displayed, line, games, history>>

NextRace ==
    \/ \E p \in Procs, score \in StoreScores : SaveLoad(p, score)
    \/ \E p \in Procs, w \in WriteOutcomes : SaveOpen(p, w)
    \/ \E p \in Procs, w \in WriteOutcomes : SaveDump(p, w)
    \/ RaceLoad

SpecRace == InitRace /\ [][NextRace]_vars

(***************************************************************************)
(* generate_hint called once, for every secret of the range and every last *)
(* guess, given or not.                                                    *)
(***************************************************************************)
HintSecrets == 1..DIFFICULTIES[T_easy].range
HintLastGuesses == {<<>>} \cup {<<g>> : g \in HintSecrets}

InitHint ==
    /\ pc = "hint"
    /\ secret_number \in HintSecrets
    /\ last_guess \in HintLastGuesses
    /\ file = AbsentFile
    /\ file0 = file
    /\ high_scores = <<>>
    /\ player_name = T_none
    /\ difficulty_choice = T_easy
    /\ attempts_made = 0
    /\ game_won = FALSE
    /\ out = <<>>
    /\ displayed = <<>>
    /\ line = <<>>
    /\ games = 0
    /\ guesses = <<>>
    /\ saved = <<>>
    /\ write_failed = FALSE
    /\ race = NoRace

\* print(f"Hint: {generate_hint(...)}")
HintShown ==
    /\ pc = "hint"
    /\ pc' = "hinted"
    /\ \E h \in generate_hint(secret_number, attempts_made, last_guess) :
         out' = <<Msg("Hint", 0, h)>>
    /\ UNCHANGED <<history, session, file, high_scores, displayed, line, games>>

NextHint == HintShown

SpecHint == InitHint /\ [][NextHint]_vars

(***************************************************************************)
(* The menu's choice 2 on leaderboards of up to MaxRows records, as loaded *)
(* from a file that holds them.                                            *)
(***************************************************************************)
\* the record at position i: its name tells the position
DisplayRecord(i, attempts) ==
    ScoreRecord(<<"P", DigitChars[(i \div 10) + 1], DigitChars[(i % 10) + 1]>>,
                IF attempts = 3 THEN T_hard ELSE T_easy, attempts,
                CHOOSE d \in Dates : TRUE)

\* sorted leaderboards: a records of 3 attempts, then of 5 up to b, then of 8
DisplaySamples ==
    { [i \in 1..t[1] |-> DisplayRecord(i, IF i <= t[2] THEN 3
                                          ELSE IF i <= t[3] THEN 5 ELSE 8)] :
        t \in { u \in (0..MaxRows) \X (0..MaxRows) \X (0..MaxRows) :
                  u[2] <= u[3] /\ u[3] <= u[1] } }

InitDisplay ==
    /\ pc = "menu"
    /\ high_scores \in DisplaySamples
    /\ file = OkFile(high_scores)
    /\ file0 = file
    /\ player_name = T_none
    /\ difficulty_choice = T_none
    /\ secret_number = 0
    /\ attempts_made = 0
    /\ last_guess = <<>>
    /\ game_won = FALSE
    /\ out = <<>>
    /\ displayed = <<>>
    /\ line = <<>>
    /\ games = 0
    /\ guesses = <<>>
    /\ saved = <<>>
    /\ write_failed = FALSE
    /\ race = NoRace

NextDisplay == \E l \in MenuLines : ChooseLeaderboard(l)

SpecDisplay == InitDisplay /\ [][NextDisplay]_vars

(***************************************************************************)
(* Vocabulary of the properties.                                           *)
(***************************************************************************)
InSession == pc \in {"guess", "continue"}
Tries == DIFFICULTIES[difficulty_choice].tries
Printed(m) == \E i \in DOMAIN out : out[i].msg = m
IsSorted(s) == \A i, j \in DOMAIN s : i < j => s[i].attempts <= s[j].attempts
AttemptsOf(s) == [i \in DOMAIN s |-> s[i].attempts]
SeqToBag(s) ==
    [x \in {s[i] : i \in DOMAIN s} |-> Cardinality({i \in DOMAIN s : s[i] = x})]
Matches == {i \in DOMAIN guesses : guesses[i] = secret_number}

(***************************************************************************)
(* C1: during a session attempts_made is between 0 and the difficulty's    *)
(* tries, is 0 when the guess loop is entered, and never decreases from    *)
(* one step of the session to the next.                                    *)
(***************************************************************************)
C1_AttemptsBounded ==
    /\ [](InSession => attempts_made \in 0..Tries)
    /\ [][pc = "difficulty" /\ pc' = "guess" => attempts_made' = 0]_vars
    /\ [][InSession /\ InSession' => attempts_made' >= attempts_made]_vars

\* an easy session that used all of its 10 tries
C1_Witness ==
    pc = "continue" /\ difficulty_choice = T_easy /\ attempts_made = 10

(***************************************************************************)
(* C2: with a player who eventually types an accepted guess whenever       *)
(* asked, a session at the guess prompt eventually ends, and no session    *)
(* takes more accepted guesses than the difficulty's tries.                *)
(***************************************************************************)
C2_SessionEnds ==
    /\ (pc = "guess") ~> (pc = "continue")
    /\ [](InSession => Len(guesses) <= Tries)

\* a hard session lost on its fifth accepted guess
C2_Witness ==
    pc = "continue" /\ ~game_won /\ difficulty_choice = T_hard /\ Len(guesses) = 5

(***************************************************************************)
(* C3: a session goes on exactly while no accepted guess was the secret    *)
(* and fewer than tries guesses were accepted.  It ends won exactly when   *)
(* an accepted guess equals the secret, with attempts the position of the  *)
(* first such guess; otherwise it ends lost after exactly tries guesses    *)
(* and the loss message shows the secret.                                  *)
(***************************************************************************)
C3_Outcome ==
    /\ pc = "guess" => Matches = {} /\ Len(guesses) < Tries /\ ~game_won
    /\ pc = "continue" =>
         /\ game_won <=> Matches # {}
         /\ game_won =>
              /\ \A i \in Matches : attempts_made <= i
              /\ attempts_made \in Matches
              /\ \E i \in DOMAIN out :
                    out[i] = Msg("Congratulations", attempts_made, <<>>)
         /\ ~game_won =>
              /\ Len(guesses) = Tries
              /\ attempts_made = Tries
              /\ \E i \in DOMAIN out : out[i] = Msg("GameOver", secret_number, <<>>)

\* secret 50 on easy, guesses 7, 7, 50: won with attempts 3
C3_Witness ==
    /\ pc = "continue" /\ game_won /\ difficulty_choice = T_easy
    /\ secret_number = 50 /\ guesses = <<7, 7, 50>> /\ attempts_made = 3

(***************************************************************************)
(* C4: a line at the guess prompt that is not an integer, or is an integer *)
(* outside 1..range, leaves the process at the guess prompt with           *)
(* attempts_made, last_guess, game_won and the file unchanged; any other   *)
(* line increments attempts_made by exactly 1.                             *)
(***************************************************************************)
C4_IsRejected(l, max_range) ==
    \/ ~ParseInt(l).ok
    \/ ParseInt(l).value < 1
    \/ ParseInt(l).value > max_range

C4_RejectedGuess ==
    [][pc = "guess" =>
         IF C4_IsRejected(line', DIFFICULTIES[difficulty_choice].range)
         THEN /\ pc' = "guess"
              /\ UNCHANGED <<attempts_made, last_guess, game_won, file, guesses>>
              /\ Printed("InvalidInput")' \/ Printed("OutOfRange")'
         ELSE attempts_made' = attempts_made + 1]_vars

\* 101 typed after two accepted guesses
C4_Witness ==
    /\ pc = "guess" /\ attempts_made = 2 /\ line = <<"1", "0", "1">>
    /\ Printed("OutOfRange")

C6_Sorted ==
    file0.kind \in {"absent", "ok"} =>
        /\ file.kind = "ok" => IsSorted(file.recs)
        /\ IsSorted(load_high_scores(file).scores)
        /\ IsSorted(high_scores)

\* three saves, the second with fewer attempts than the first, then a load
C6_Witness ==
    /\ file0.kind = "absent" /\ file.kind = "ok" /\ Len(file.recs) = 3
    /\ Len(saved) = 3 /\ saved[2].attempts < saved[1].attempts
    /\ high_scores = file.recs

(***************************************************************************)
(* C7: starting from an empty or absent leaderboard and with every write   *)
(* succeeding, a load returns exactly the records saved so far, each as    *)
(* often as it was saved, sorted ascending by attempts; saving attempts    *)
(* 5, 3, 8 gives 3, 5, 8.                                                  *)
(***************************************************************************)
C7_RoundTrip ==
    (file0 \in {AbsentFile, OkFile(<<>>)} /\ ~write_failed) =>
        LET l == load_high_scores(file)
        IN  /\ ~l.raised
            /\ SeqToBag(l.scores) = SeqToBag(saved)
            /\ IsSorted(l.scores)
            /\ Len(saved) = 1 => l.scores = saved
            /\ AttemptsOf(saved) = <<5, 3, 8>> => AttemptsOf(l.scores) = <<3, 5, 8>>

\* attempts 5, 3, 8 saved to an absent file and loaded
C7_Witness ==
    /\ file0 = AbsentFile /\ ~write_failed
    /\ AttemptsOf(saved) = <<5, 3, 8>> /\ AttemptsOf(high_scores) = <<3, 5, 8>>

(***************************************************************************)
(* C8: whenever the leaderboard is on the screen, it shows the records a   *)
(* load of the file returns at that time.                                  *)
(***************************************************************************)
C8_DisplayIsCurrent ==
    pc = "leaderboard" =>
        displayed = display_leaderboard(load_high_scores(file).scores).rows

(***************************************************************************)
(* C9: after a won session whose write failed, the session's record is in  *)
(* the process's in-memory leaderboard.                                    *)
(***************************************************************************)
C9_KeptInMemory ==
    (pc = "continue" /\ game_won /\ Printed("ErrorSaving")) =>
        \E i \in DOMAIN high_scores :
            /\ high_scores[i].name = player_name
            /\ high_scores[i].difficulty = difficulty_choice
            /\ high_scores[i].attempts = attempts_made

(***************************************************************************)
(* C10: a load of a file that holds invalid JSON, or of an absent file,    *)
(* returns the empty sequence and raises nothing: main_menu's loads leave  *)
(* the file as it was, set high_scores to the empty sequence and go on to  *)
(* the menu.                                                               *)
(***************************************************************************)
C10_BadJsonLoadsEmpty ==
    /\ [](file.kind \in {"badjson", "absent"} =>
            /\ load_high_scores(file).scores = <<>>
            /\ ~load_high_scores(file).raised)
    /\ [][(pc \in {"start", "leaderboard"} /\ file.kind \in {"badjson", "absent"}) =>
            /\ file' = file
            /\ high_scores' = <<>>
            /\ pc' = "menu"]_vars

\* a leaderboard of one record was lost to a partial write and then reloaded
C10_Witness ==
    /\ pc = "menu" /\ file = BadJsonFile /\ file0.kind = "ok"
    /\ high_scores = <<>> /\ Printed("Warning")

(***************************************************************************)
(* C11: no error ends the process: it never stops on an uncaught           *)
(* exception, and stops only at the exit choice of the menu.               *)
(***************************************************************************)
C11_NeverFatal ==
    /\ pc # "crashed"
    /\ pc = "exited" => line = <<"3">>

(***************************************************************************)
(* C12: a save replaces the file atomically: whatever way the write ends,  *)
(* the file afterwards is the whole sequence of before the save or the     *)
(* whole sequence of after it, never an empty or half-written file.        *)
(***************************************************************************)
C12_AtomicSave ==
    [][saved' # saved =>
         file' \in { file,
                     OkFile(SortByAttempts(Append(load_high_scores(file).scores,
                                                  saved'[Len(saved')]))) }]_vars

(***************************************************************************)
(* C13: when two processes save one record each with no lock, the file     *)
(* after both saves is the list of the process that wrote last; if both    *)
(* loaded before either began to write, the file holds the last writer's   *)
(* record and does not hold the other's: both records being in the file    *)
(* after both saves is not an invariant.                                   *)
(***************************************************************************)
InFile(r) == file.kind = "ok" /\ \E i \in DOMAIN file.recs : file.recs[i] = r
BothSaved ==
    /\ \A p \in Procs : race.procs[p].at = "done"
    /\ Len(race.wrote) = 2
LostUpdate ==
    /\ BothSaved
    /\ InFile(race.procs[race.wrote[2]].score)
    /\ ~InFile(race.procs[race.wrote[1]].score)

C13_LastWriterWins ==
    BothSaved =>
        /\ file = OkFile(race.procs[race.wrote[2]].scores)
        /\ InFile(race.procs[race.wrote[2]].score)
        /\ ( /\ \A p \in Procs : race.procs[p].seen = {}
             /\ race.procs[race.wrote[1]].score # race.procs[race.wrote[2]].score
             /\ file0.kind = "ok" =>
                   \A i \in DOMAIN file0.recs :
                       file0.recs[i] # race.procs[race.wrote[1]].score )
           => LostUpdate

\* both loaded a one-record file before either wrote; one new record is lost
C13_Witness ==
    /\ LostUpdate
    /\ \A p \in Procs : race.procs[p].seen = {}
    /\ file0.kind = "ok" /\ Len(file0.recs) = 1
    /\ Len(file.recs) = 2

(***************************************************************************)
(* C14: a step of the session prints a hint exactly when it is an accepted *)
(* wrong guess that brings attempts_made to 3, 5, 7 or 9; no hint at 1, 2, *)
(* 4, 6, 8 or 10, nor after the winning guess.  When that attempt is the   *)
(* last one (5 on hard, 7 on medium), the hint comes just before the loss  *)
(* message.                                                                *)
(***************************************************************************)
IndexOfMsg(m) == CHOOSE i \in DOMAIN out : out[i].msg = m

C14_HintSchedule ==
    /\ [][Printed("Hint")' <=>
            /\ pc = "guess"
            /\ attempts_made' = attempts_made + 1
            /\ ~game_won'
            /\ attempts_made' \in {3, 5, 7, 9}]_vars
    /\ [](Printed("Hint") /\ Printed("GameOver") =>
            IndexOfMsg("GameOver") = IndexOfMsg("Hint") + 1)
    /\ [](InSession /\ attempts_made = Tries /\ ~game_won /\ Tries \in {5, 7} =>
            Printed("Hint") /\ Printed("GameOver"))

\* a hard session lost at the fifth guess: hint, then the loss message
C14_Witness ==
    /\ pc = "continue" /\ difficulty_choice = T_hard /\ attempts_made = 5
    /\ Printed("Hint") /\ Printed("GameOver")

(***************************************************************************)
(* C15: for every secret in 1..100 and every last guess, or none, the      *)
(* candidates of generate_hint are: one parity statement, the secret's     *)
(* parity; at most one divisibility statement, only when the secret is     *)
(* above 10, naming the first of 3, 5, 7 that divides it; at most one      *)
(* proximity statement, 'greater than g' iff g < secret and 'less than g'  *)
(* iff g > secret.  The hint shown is min(2, number of candidates)         *)
(* distinct candidates, so every statement shown is true of the secret.    *)
(***************************************************************************)
TrueOfSecret(h) ==
    CASE h.kind = "even" -> secret_number % 2 = 0
      [] h.kind = "odd" -> secret_number % 2 = 1
      [] h.kind = "divisible" -> secret_number % h.n = 0
      [] h.kind = "greater" -> secret_number > h.n
      [] h.kind = "less" -> secret_number < h.n
      [] OTHER -> FALSE

OfKinds(c, kinds) == {i \in DOMAIN c : c[i].kind \in kinds}

C15_Candidates ==
    LET c == hint_candidates(secret_number, last_guess)
        parity == OfKinds(c, {"even", "odd"})
        divis == OfKinds(c, {"divisible"})
        proxi == OfKinds(c, {"greater", "less"})
    IN  /\ DOMAIN c = parity \cup divis \cup proxi
        /\ Cardinality(parity) = 1
        /\ \A i \in parity : c[i].kind = "even" <=> secret_number % 2 = 0
        /\ Cardinality(divis) <= 1
        /\ \A i \in divis :
             /\ secret_number > 10
             /\ c[i].n \in {3, 5, 7}
             /\ secret_number % c[i].n = 0
             /\ \A m \in {3, 5, 7} : m < c[i].n => secret_number % m # 0
        /\ Cardinality(proxi) <= 1
        /\ (\E i \in proxi : c[i] = Hint("greater", last_guess[1]))
             <=> (last_guess # <<>> /\ last_guess[1] < secret_number)
        /\ (\E i \in proxi : c[i] = Hint("less", last_guess[1]))
             <=> (last_guess # <<>> /\ last_guess[1] > secret_number)
        /\ \A i \in proxi : c[i].n = last_guess[1]

C15_Shown ==
    pc = "hinted" =>
        LET c == hint_candidates(secret_number, last_guess)
            h == out[1].parts
        IN  /\ Len(h) = (IF Len(c) < 2 THEN Len(c) ELSE 2)
            /\ \A i, j \in DOMAIN h : i # j => h[i] # h[j]
            /\ \A i \in DOMAIN h : \E j \in DOMAIN c : h[i] = c[j]
            /\ \A i \in DOMAIN h : TrueOfSecret(h[i])

C15_HintIsTrue == (pc \in {"hint", "hinted"} => C15_Candidates) /\ C15_Shown

\* secret 12, last guess 5: 'even' and 'greater than 5' are shown
C15_Witness ==
    /\ pc = "hinted" /\ secret_number = 12 /\ last_guess = <<5>>
    /\ out[1].parts = <<Hint("even", 0), Hint("greater", 5)>>
    /\ Len(hint_candidates(secret_number, last_guess)) = 3

(***************************************************************************)
(* C16: the display of a sorted leaderboard shows its first min(10, n)     *)
(* records in order, the record at position i with rank i, shows nothing   *)
(* of position 11 or later, and for an empty leaderboard prints the 'no    *)
(* scores' message and no row.                                             *)
(***************************************************************************)
C16_TopTen ==
    pc = "leaderboard" =>
        LET n == IF Len(high_scores) < 10 THEN Len(high_scores) ELSE 10
        IN  /\ IsSorted(high_scores)
            /\ DOMAIN displayed = 1..n
            /\ \A i \in 1..n :
                 /\ displayed[i].rank = i
                 /\ displayed[i].name = high_scores[i].name
                 /\ displayed[i].attempts = high_scores[i].attempts
                 /\ displayed[i].date = high_scores[i].date
                 /\ displayed[i].difficulty =
                       (IF high_scores[i].difficulty = T_hard
                        THEN <<"H", "a", "r", "d">> ELSE <<"E", "a", "s", "y">>)
            /\ \A i \in DOMAIN displayed, j \in DOMAIN high_scores :
                 j > 10 => displayed[i].name # high_scores[j].name
            /\ Printed("NoScores") <=> high_scores = <<>>

\* twelve records stored, ten rows shown, the last with rank 10
C16_Witness ==
    /\ pc = "leaderboard" /\ Len(high_scores) = 12
    /\ Len(displayed) = 10 /\ displayed[10].rank = 10
    /\ high_scores[10].attempts = 5 /\ high_scores[11].attempts = 5

\* no record stored: the message alone
C16_WitnessEmpty ==
    pc = "leaderboard" /\ high_scores = <<>> /\ displayed = <<>> /\ Printed("NoScores")

(***************************************************************************)
(* C17: a save puts the new record after every stored record of the same   *)
(* attempts and before every stored record of more attempts, and neither   *)
(* a save nor a load changes the order the stored records had.             *)
(***************************************************************************)
Stored(f) == IF f.kind = "ok" THEN f.recs ELSE <<>>

C17_StableTies ==
    /\ [][saved' # saved /\ pc' = "store" /\ ~Printed("ErrorSaving")' =>
            LET old == Stored(file)
                r == saved'[Len(saved')]
            IN  /\ file'.kind = "ok"
                /\ \E k \in 0..Len(old) :
                     /\ file'.recs = SubSeq(old, 1, k) \o <<r>>
                                        \o SubSeq(old, k + 1, Len(old))
                     /\ \A i \in 1..k : old[i].attempts <= r.attempts
                     /\ \A i \in (k + 1)..Len(old) : old[i].attempts > r.attempts]_vars
    /\ [][saved' = saved /\ pc' = "store" => high_scores' = Stored(file)]_vars

\* two players tied at 5 attempts are stored and loaded in the order saved,
\* and a later record of fewer attempts went before both
C17_Witness ==
    /\ pc = "store"
    /\ Len(saved) = 3
    /\ saved[1].attempts = 5 /\ saved[2].attempts = 5 /\ saved[1] # saved[2]
    /\ saved[3].attempts = 3
    /\ file = OkFile(<<saved[3], saved[1], saved[2]>>)
    /\ high_scores = file.recs

(***************************************************************************)
(* C18: whenever a session prints a hint, last_guess is set, is the latest *)
(* accepted guess and is not the secret; so the candidates hold a          *)
(* proximity statement beside the parity statement, and the hint printed   *)
(* is made of exactly two statements.                                      *)
(***************************************************************************)
HintParts == out[IndexOfMsg("Hint")].parts

C18_TwoStatements ==
    Printed("Hint") =>
        /\ InSession
        /\ last_guess # <<>>
        /\ guesses # <<>>
        /\ last_guess[1] = guesses[Len(guesses)]
        /\ last_guess[1] # secret_number
        /\ LET c == hint_candidates(secret_number, last_guess)
           IN  /\ Cardinality(OfKinds(c, {"even", "odd"})) = 1
               /\ Cardinality(OfKinds(c, {"greater", "less"})) = 1
               /\ \A i \in DOMAIN HintParts : \E j \in DOMAIN c : HintParts[i] = c[j]
        /\ Len(HintParts) = 2
        /\ HintParts[1] # HintParts[2]

\* secret 7 has no divisibility statement: parity and proximity are shown
C18_Witness ==
    /\ Printed("Hint") /\ secret_number = 7 /\ attempts_made = 3
    /\ last_guess = <<50>>
    /\ Len(HintParts) = 2
    /\ \E i \in DOMAIN HintParts : HintParts[i] = Hint("less", 50)

(***************************************************************************)
(* C19: when a won session saves its record over a file of invalid JSON,   *)
(* the file afterwards is a well-formed list of exactly that one record.   *)
(* As stated, for every such save:                                         *)
(***************************************************************************)
WonRecords ==
    { [name |-> player_name', difficulty |-> difficulty_choice',
       attempts |-> attempts_made', date |-> d] : d \in Dates }

C19_BadJsonOverwritten ==
    [][pc = "guess" /\ game_won' /\ file = BadJsonFile =>
          \E r \in WonRecords : file' = OkFile(<<r>>)]_vars

(***************************************************************************)
(* C19, amended: the load inside the save warns and gives the empty list;  *)
(* if the write succeeds the file is a list of exactly the new record, and *)
(* if the write fails the file still holds no valid JSON.                  *)
(***************************************************************************)
C19_BadJsonOverwrittenIfWritten ==
    [][pc = "guess" /\ game_won' /\ file = BadJsonFile =>
          /\ pc' = "continue"
          /\ Printed("Warning")'
          /\ IF Printed("ErrorSaving")'
             THEN file' = BadJsonFile
             ELSE \E r \in WonRecords : file' = OkFile(<<r>>)]_vars

\* the program started on invalid JSON; the won session left one record
C19_Witness ==
    /\ pc = "continue" /\ game_won /\ file0 = BadJsonFile
    /\ Printed("Warning") /\ ~Printed("ErrorSaving")
    /\ file.kind = "ok" /\ Len(file.recs) = 1
    /\ file.recs[1].name = player_name /\ file.recs[1].attempts = attempts_made

(***************************************************************************)
(* C20: after every won session the confirmation 'Your score has been      *)
(* saved to the leaderboard!' is printed, after the error message too when *)
(* the write failed; it is printed for no other session.  That it is       *)
(* printed does not tell that the record is in the file (the witness).     *)
(***************************************************************************)
C20_AlwaysConfirmed ==
    /\ (pc = "continue" /\ game_won) =>
          /\ Printed("ScoreSaved")
          /\ out[Len(out)].msg = "ScoreSaved"
    /\ Printed("ScoreSaved") => (pc = "continue" /\ game_won)

\* the write was refused, the confirmation is printed, the file has no record
C20_Witness ==
    /\ pc = "continue" /\ game_won
    /\ Printed("ErrorSaving") /\ Printed("ScoreSaved")
    /\ file = AbsentFile
====
